---------------------------- MODULE Spec2Model ----------------------------
(***************************************************************************)
(* net-pathfinder: Net::find_paths, the exhaustive search for every simple *)
(* path between two points of a net (src/net.rs).                          *)
(*                                                                         *)
(* A Point is modelled by its identifier, a Node by a record of its point  *)
(* and its ordered adjacency list, a Path by the sequence of the           *)
(* identifiers it holds, a Net by its Vec of Nodes.  The recursion of      *)
(* find_paths_not_crossing_previous_path is run on an explicit call stack: *)
(* one frame per pending fold over a Node's followable points.             *)
(***************************************************************************)
EXTENDS Naturals, Sequences, FiniteSets

VARIABLES nodes, origin, destination, pc, stack, trying_path, result

vars == <<nodes, origin, destination, pc, stack, trying_path, result>>

---------------------------------------------------------------------------
(* Bounds of the generated nets *)

NumPoints == 3
MaxEdges == 3

(* The test module's point names, net.rs lines 108-111 *)
A == 1
B == 2
C == 3
D == 4

Points == 1..NumPoints

NoPoint == 0

BoundedSeq(S, n) == UNION {[1..k -> S] : k \in 0..n}

Range(s) == {s[i] : i \in DOMAIN s}

---------------------------------------------------------------------------
(* Node and Path (node.rs and path.rs) *)

MkNode(p, cs) == [point |-> p, connected |-> cs]

point_is(node, p) == node.point = p

contains(path, p) == \E i \in DOMAIN path : path[i] = p

with_point_at_the_end(path, p) == Append(path, p)

ends_with(path, p) == Len(path) > 0 /\ path[Len(path)] = p

(* An Option is a sequence of length 0 (None) or 1 (Some) *)
None == <<>>

Some(x) == <<x>>

connected_points_not_in_path(node, path) ==
    LET NotInPath(q) == ~contains(path, q)
        followable == SelectSeq(node.connected, NotInPath)
    IN  IF followable = <<>> THEN None ELSE Some(followable)

(* PathBuilder::new().point(origin).build(): Ok when a point was given *)
PathBuilderBuild(points) ==
    IF points = <<>> THEN [ok |-> FALSE, path |-> <<>>]
                     ELSE [ok |-> TRUE, path |-> points]

---------------------------------------------------------------------------
(* The test fixtures of net.rs *)

ABNet == <<MkNode(A, <<B>>), MkNode(B, <<A>>)>>

NonConnectedNet == <<MkNode(A, <<>>), MkNode(B, <<>>)>>

ABCNet == <<MkNode(A, <<B>>), MkNode(B, <<A, C>>), MkNode(C, <<B>>)>>

TriangleNet ==
    <<MkNode(A, <<B, D>>), MkNode(B, <<A, C>>),
      MkNode(C, <<B, D>>), MkNode(D, <<A, C>>)>>

DiamondNet ==
    <<MkNode(A, <<B, D>>), MkNode(B, <<A, C, D>>),
      MkNode(C, <<B, D>>), MkNode(D, <<A, C, B>>)>>

TestNets == {ABNet, NonConnectedNet, ABCNet, TriangleNet, DiamondNet}

TestPoints == {A, B, C, D}

(* Every net that holds at most one Node per point of p..NumPoints, in    *)
(* ascending order, with at most e adjacency entries in all; the entries  *)
(* range over all Points, so a Node may list itself, list a point twice,  *)
(* or list a point that has no Node                                        *)
RECURSIVE NetsFrom(_, _)
NetsFrom(p, e) ==
    IF p > NumPoints
    THEN {<<>>}
    ELSE NetsFrom(p + 1, e) \cup
         UNION {{<<MkNode(p, cs)>> \o rest : rest \in NetsFrom(p + 1, e - Len(cs))} :
                    cs \in BoundedSeq(Points, e)}

GeneratedNets == NetsFrom(1, MaxEdges)

(* Nets of three Nodes over the two points A and B: some point has more   *)
(* than one Node, in every order                                           *)
DuplicateNodeNets ==
    [1..3 -> [point : {A, B}, connected : BoundedSeq({A, B}, 1)]]

Nets == GeneratedNets \cup DuplicateNodeNets \cup TestNets

QueryPoints == Points \cup TestPoints

---------------------------------------------------------------------------
(* Net *)

NoResult == [kind |-> "None", paths |-> <<>>, id |-> NoPoint]

Ok(paths) == [kind |-> "Ok", paths |-> paths, id |-> NoPoint]

PointNotFound(p) == [kind |-> "PointNotFound", paths |-> <<>>, id |-> p]

NoPathFound == [kind |-> "NoPathFound", paths |-> <<>>, id |-> NoPoint]

Panic(p) == [kind |-> "Panic", paths |-> <<>>, id |-> p]

(* self.nodes.iter().find(|node| node.point_is(point)): the first match *)
FirstNodeIndex(ns, p) ==
    IF \E i \in DOMAIN ns : point_is(ns[i], p)
    THEN CHOOSE i \in DOMAIN ns :
             /\ point_is(ns[i], p)
             /\ \A j \in DOMAIN ns : point_is(ns[j], p) => i <= j
    ELSE 0

(* A lookup that reports a missing point as NoPathFound *)
find_node_or_no_path(ns, p) ==
    LET i == FirstNodeIndex(ns, p)
    IN  IF i # 0 THEN [ok |-> TRUE, node |-> ns[i], err |-> NoResult]
                 ELSE [ok |-> FALSE, node |-> MkNode(NoPoint, <<>>),
                       err |-> NoPathFound]

find_node_or_throws(ns, p) ==
    LET i == FirstNodeIndex(ns, p)
    IN  IF i # 0 THEN [ok |-> TRUE, node |-> ns[i], err |-> NoResult]
                 ELSE [ok |-> FALSE, node |-> MkNode(NoPoint, <<>>),
                       err |-> PointNotFound(p)]

(* A lookup that takes a missing point for a Node with no connections *)
find_node_or_isolated(ns, p) ==
    LET found == find_node_or_throws(ns, p)
    IN  [ok |-> TRUE, node |-> IF found.ok THEN found.node ELSE MkNode(p, <<>>)]

(* Ok(node) => the node; Err(err) => panic!(err), here ok = FALSE *)
find_node_or_panic(ns, p) ==
    LET found == find_node_or_throws(ns, p)
    IN  [ok |-> found.ok, node |-> found.node]

(* A search that checks the extension of a path against all of it but    *)
(* its first point                                                        *)
followable_points_ignoring_seed(origin_node, previous_path) ==
    connected_points_not_in_path(origin_node, Tail(previous_path))

(* origin.connected_points_not_in_path(previous_path), net.rs line 27 *)
followable_points(origin_node, previous_path) ==
    connected_points_not_in_path(origin_node, previous_path)

(* A search that returns Some(paths) without looking at paths *)
paths_always_some(paths) == Some(paths)

(* if paths.is_empty() { None } else { Some(paths) }, net.rs lines 32-36 *)
paths_or_none(paths) == IF paths = <<>> THEN None ELSE Some(paths)

(* A fold that keeps the last branch's paths instead of chaining them *)
fold_paths_keeping_last(paths, path_search) ==
    IF path_search # None THEN path_search[1] ELSE paths

(* A fold that chains the paths found twice *)
fold_paths_chaining_twice(paths, path_search) ==
    IF path_search # None THEN (paths \o path_search[1]) \o path_search[1]
                          ELSE paths

(* the fold's closure, net.rs lines 45-49 *)
fold_paths(paths, path_search) ==
    IF path_search # None THEN paths \o path_search[1] ELSE paths

(* A complete path that is the path followed, without the point reached *)
complete_path_without_point(following_path, trying) == Some(<<following_path>>)

(* Some(vec![trying_path]), net.rs line 57 *)
complete_path(following_path, trying) == Some(<<trying>>)

Frame(path, todo) == [path |-> path, todo |-> todo, paths |-> <<>>]

Top == stack[Len(stack)]

Pop == SubSeq(stack, 1, Len(stack) - 1)

ReplaceTop(frame) == [stack EXCEPT ![Len(stack)] = frame]

Init ==
    /\ nodes \in Nets
    /\ origin = NoPoint
    /\ destination = NoPoint
    /\ pc = "idle"
    /\ stack = <<>>
    /\ trying_path = <<>>
    /\ result = NoResult

(* find_paths up to its call of find_paths_not_crossing_previous_path on  *)
(* the seed path, and that call up to its fold over the followable points *)
FindPaths(o, d) ==
    /\ pc = "idle"
    /\ origin' = o
    /\ destination' = d
    /\ LET node_from == find_node_or_throws(nodes, o)
           built == PathBuilderBuild(<<o>>)
       IN  IF ~node_from.ok
           THEN /\ result' = node_from.err
                /\ pc' = "done"
                /\ stack' = stack
           ELSE IF ~built.ok
           THEN /\ result' = [kind |-> "PathCannotBeBuilt", paths |-> <<>>,
                              id |-> NoPoint]
                /\ pc' = "done"
                /\ stack' = stack
           ELSE LET followable == followable_points(node_from.node, built.path)
                IN  IF followable = None
                    THEN /\ result' = NoPathFound
                         /\ pc' = "done"
                         /\ stack' = stack
                    ELSE /\ result' = result
                         /\ pc' = "searching"
                         /\ stack' = <<Frame(built.path, followable[1])>>
    /\ UNCHANGED <<nodes, trying_path>>

(* One element of the map over followable_points:                          *)
(* all_paths_to_destination_following_path_and_continuing_with_point, and  *)
(* the fold of what it returns unless it recurses into a fold of its own   *)
ContinueWithPoint ==
    /\ pc = "searching"
    /\ Top.todo # <<>>
    /\ LET next_point == Head(Top.todo)
           rest == [Top EXCEPT !.todo = Tail(Top.todo)]
           origin_node == find_node_or_panic(nodes, next_point)
           trying == with_point_at_the_end(Top.path, next_point)
       IN  IF ~origin_node.ok
           THEN /\ result' = Panic(next_point)
                /\ pc' = "done"
                /\ stack' = <<>>
                /\ trying_path' = trying_path
           ELSE /\ trying_path' = trying
                /\ IF ends_with(trying, destination)
                   THEN /\ stack' = ReplaceTop(
                               [rest EXCEPT !.paths =
                                   fold_paths(rest.paths,
                                              complete_path(Top.path, trying))])
                        /\ UNCHANGED <<pc, result>>
                   ELSE LET followable ==
                                followable_points(origin_node.node, trying)
                        IN  IF followable = None
                            THEN /\ stack' = ReplaceTop(
                                        [rest EXCEPT !.paths =
                                            fold_paths(rest.paths, None)])
                                 /\ UNCHANGED <<pc, result>>
                            ELSE /\ stack' = Append(ReplaceTop(rest),
                                                    Frame(trying, followable[1]))
                                 /\ UNCHANGED <<pc, result>>
    /\ UNCHANGED <<nodes, origin, destination>>

(* The fold of a frame is over: find_paths_not_crossing_previous_path      *)
(* returns to the fold of the frame below, or to find_paths                *)
Return ==
    /\ pc = "searching"
    /\ Top.todo = <<>>
    /\ LET path_search == paths_or_none(Top.paths)
       IN  IF Len(stack) > 1
           THEN LET below == stack[Len(stack) - 1]
                IN  /\ stack' = [Pop EXCEPT ![Len(stack) - 1] =
                            [below EXCEPT !.paths =
                                fold_paths(below.paths, path_search)]]
                    /\ UNCHANGED <<pc, result>>
           ELSE /\ stack' = <<>>
                /\ pc' = "done"
                /\ result' = IF path_search # None THEN Ok(path_search[1])
                                                   ELSE NoPathFound
    /\ UNCHANGED <<nodes, origin, destination, trying_path>>

Next ==
    \/ \E o \in QueryPoints, d \in QueryPoints : FindPaths(o, d)
    \/ ContinueWithPoint
    \/ Return

Spec == Init /\ [][Next]_vars

FairSpec == Spec /\ WF_vars(Next)

---------------------------------------------------------------------------
(* The net as a graph, and the walks of it the properties speak of *)

Done == pc = "done"

HasNode(p) == \E i \in DOMAIN nodes : nodes[i].point = p

(* u's Node: the one a lookup of u resolves to *)
NodeOf(u) == nodes[FirstNodeIndex(nodes, u)]

ListedPoints == UNION {Range(nodes[i].connected) : i \in DOMAIN nodes}

NodePoints == {nodes[i].point : i \in DOMAIN nodes}

NetPoints == NodePoints \cup ListedPoints

(* every adjacency-listed point has a Node *)
WellFormed == ListedPoints \subseteq NodePoints

Last(w) == w[Len(w)]

NoRepeat(w) == \A i, j \in DOMAIN w : w[i] = w[j] => i = j

(* The walks that begin with w, repeat no point after w and follow only   *)
(* edges listed by the Node of the point they leave                        *)
RECURSIVE SimpleWalksFrom(_)
SimpleWalksFrom(w) ==
    LET next == IF HasNode(Last(w))
                THEN Range(NodeOf(Last(w)).connected) \ Range(w)
                ELSE {}
    IN  {w} \cup UNION {SimpleWalksFrom(Append(w, v)) : v \in next}

(* The simple walks of at least one step from o to d *)
SimpleWalks(o, d) ==
    IF HasNode(o)
    THEN {w \in SimpleWalksFrom(<<o>>) : Len(w) >= 2 /\ Last(w) = d}
    ELSE {}

ResultPaths == Range(result.paths)

(* The search meets a candidate neighbour that has no Node: a simple walk *)
(* from origin that passes through no destination ends at such a point    *)
DanglingReached ==
    /\ HasNode(origin)
    /\ \E w \in SimpleWalksFrom(<<origin>>) :
           /\ Len(w) >= 2
           /\ ~HasNode(Last(w))
           /\ \A i \in 2..(Len(w) - 1) : w[i] # destination

---------------------------------------------------------------------------
(* C1 as claimed: for every Net, every simple walk from origin to          *)
(* destination along listed edges is among the paths find_paths returns.   *)
C1_CompletenessForEveryNet ==
    Done => \A w \in SimpleWalks(origin, destination) :
                result.kind = "Ok" /\ w \in ResultPaths

(* C1: completeness of find_paths. Whenever the query does not end in the  *)
(* fatal fault, every simple walk of at least one step from origin to      *)
(* destination along listed edges is among the paths it returns.           *)
C1_Completeness ==
    (Done /\ result.kind # "Panic") =>
        \A w \in SimpleWalks(origin, destination) :
            result.kind = "Ok" /\ w \in ResultPaths

C1_Witness ==
    /\ Done
    /\ result.kind = "Ok"
    /\ Cardinality(SimpleWalks(origin, destination)) >= 2
    /\ \E w \in SimpleWalks(origin, destination) : Len(w) >= 3

(* C2: soundness of find_paths. Every path of an Ok result starts at       *)
(* origin, ends at destination, and each of its steps u -> v has v in the  *)
(* adjacency list of u's Node.                                             *)
C2_Soundness ==
    (Done /\ result.kind = "Ok") =>
        \A i \in DOMAIN result.paths :
            LET path == result.paths[i]
            IN  /\ Len(path) >= 2
                /\ path[1] = origin
                /\ Last(path) = destination
                /\ \A k \in 1..(Len(path) - 1) :
                       /\ HasNode(path[k])
                       /\ path[k + 1] \in Range(NodeOf(path[k]).connected)

C2_Witness ==
    /\ Done
    /\ result.kind = "Ok"
    /\ \E i \in DOMAIN result.paths : Len(result.paths[i]) >= 3
    /\ \E u \in NodePoints : \E v \in Range(NodeOf(u).connected) :
           HasNode(v) /\ u \notin Range(NodeOf(v).connected)

(* C3: no-revisit invariant. The seed path, every path held by a pending   *)
(* call, every trying_path built, every complete path collected and every  *)
(* path returned repeats no point identifier.                              *)
C3_NoRevisit ==
    /\ NoRepeat(trying_path)
    /\ \A i \in DOMAIN result.paths : NoRepeat(result.paths[i])
    /\ \A f \in DOMAIN stack :
           /\ NoRepeat(stack[f].path)
           /\ \A i \in DOMAIN stack[f].paths : NoRepeat(stack[f].paths[i])

(* a pending call whose Node lists a point of the path built so far *)
C3_Witness ==
    /\ pc = "searching"
    /\ Len(stack) >= 2
    /\ Len(Top.path) >= 3
    /\ Range(NodeOf(Last(Top.path)).connected) \cap Range(Top.path) # {}

(* C4: unknown origin. When no Node has the origin's identifier, the query *)
(* ends with PointNotFound carrying that identifier, whatever the          *)
(* destination, and no neighbour was resolved and no path extended.        *)
C4_UnknownOrigin ==
    (Done /\ ~HasNode(origin)) =>
        /\ result = PointNotFound(origin)
        /\ trying_path = <<>>
        /\ stack = <<>>

C4_Witness ==
    /\ Done
    /\ ~HasNode(origin)
    /\ HasNode(destination)
    /\ origin \in ListedPoints
    /\ result.kind = "PointNotFound"

(* C5 as claimed: when origin has a Node and the destination's identifier  *)
(* is in no Node of the Net, the query yields PointNotFound.               *)
C5_UnknownDestinationIsPointNotFound ==
    (Done /\ HasNode(origin) /\ destination \notin NetPoints) =>
        result.kind = "PointNotFound"

(* C5: unknown destination. When origin has a Node and destination has     *)
(* none, the query yields NoPathFound, or the fatal fault when the search  *)
(* meets a listed point that has no Node; never Ok, never PointNotFound.   *)
C5_UnknownDestination ==
    (Done /\ HasNode(origin) /\ ~HasNode(destination)) =>
        /\ result.kind \in {"NoPathFound", "Panic"}
        /\ (result.kind = "Panic") <=> DanglingReached
        /\ (destination \notin NetPoints /\ WellFormed) => result = NoPathFound

C5_Witness ==
    /\ Done
    /\ HasNode(origin)
    /\ destination \notin NetPoints
    /\ trying_path # <<>>
    /\ result = NoPathFound

(* C6: NoPathFound exactly when the search is empty. In a well-formed Net  *)
(* where origin has a Node, the query yields NoPathFound if and only if    *)
(* there is no simple walk of at least one step from origin to             *)
(* destination, and otherwise Ok with all of them; an Ok result is never   *)
(* an empty list, in any Net.                                              *)
C6_NoPathFoundIffEmpty ==
    /\ (Done /\ WellFormed /\ HasNode(origin)) =>
           /\ result.kind \in {"NoPathFound", "Ok"}
           /\ (result.kind = "NoPathFound") <=>
                  (SimpleWalks(origin, destination) = {})
           /\ (result.kind = "Ok") =>
                  (ResultPaths = SimpleWalks(origin, destination))
    /\ (result.kind = "Ok") => (result.paths # <<>>)

(* the search ran through a connected part and found no way to destination *)
C6_Witness ==
    /\ Done
    /\ WellFormed
    /\ HasNode(origin)
    /\ HasNode(destination)
    /\ origin # destination
    /\ Len(trying_path) >= 2
    /\ result = NoPathFound

(* C7: fatal fault on dangling adjacency. The query ends in the fatal      *)
(* fault, and in no Ok and no error, exactly when the search meets a       *)
(* candidate neighbour that has no Node, be it the destination itself or a *)
(* point met after other branches produced complete paths.                 *)
C7_FatalFaultOnDangling ==
    Done =>
        /\ (result.kind = "Panic") <=> DanglingReached
        /\ (result.kind = "Panic") =>
               /\ ~HasNode(result.id)
               /\ result.paths = <<>>
               /\ stack = <<>>

(* the first branch from origin is the complete path origin-destination,   *)
(* a later one meets a point with no Node                                  *)
C7_Witness ==
    /\ Done
    /\ result.kind = "Panic"
    /\ origin # destination
    /\ HasNode(destination)
    /\ Head(NodeOf(origin).connected) = destination

(* the point with no Node is the destination itself *)
C7_WitnessDestination ==
    /\ Done
    /\ result.kind = "Panic"
    /\ result.id = destination

(* The path of the f-th nested call holds f points, and neither the depth *)
(* of the nesting nor the length of any path exceeds the number of         *)
(* distinct point identifiers in the Net                                   *)
DepthBounded ==
    /\ Len(stack) <= Cardinality(NetPoints)
    /\ Len(trying_path) <= Cardinality(NetPoints)
    /\ \A i \in DOMAIN result.paths :
           Len(result.paths[i]) <= Cardinality(NetPoints)
    /\ \A f \in DOMAIN stack :
           /\ Len(stack[f].path) = f
           /\ \A i \in DOMAIN stack[f].paths :
                  Len(stack[f].paths[i]) <= Cardinality(NetPoints)

(* C8: termination. Every query finishes, with Ok, an error or the fatal   *)
(* fault; the path of each nested call is one point longer than that of    *)
(* the call it is nested in, and neither the depth of the nesting nor the  *)
(* length of any path exceeds the number of distinct point identifiers in  *)
(* the Net.                                                                *)
C8_Termination == []DepthBounded /\ <>Done

(* a finished query over a Net with a cycle, whose last path went through  *)
(* every point of the Net                                                  *)
C8_Witness ==
    /\ Done
    /\ result.kind \in {"Ok", "NoPathFound"}
    /\ Cardinality(NetPoints) >= 3
    /\ Len(trying_path) = Cardinality(NetPoints)
    /\ origin \in Range(NodeOf(Last(trying_path)).connected)

(* at most one Node per point identifier *)
NoDuplicateNodes ==
    \A i, j \in DOMAIN nodes : nodes[i].point = nodes[j].point => i = j

(* no identifier twice in an adjacency list *)
NoDuplicateConnections == \A i \in DOMAIN nodes : NoRepeat(nodes[i].connected)

(* C9: each simple path is yielded exactly once. In a Net with at most one *)
(* Node per identifier and no identifier twice in an adjacency list, an Ok *)
(* result holds no path twice and as many paths as there are simple walks  *)
(* from origin to destination: one for A-B, one for A-B-C, two for the     *)
(* square, four for the square with the B-D diagonal.                      *)
C9_EachPathOnce ==
    /\ (Done /\ result.kind = "Ok" /\ NoDuplicateNodes /\ NoDuplicateConnections) =>
           /\ NoRepeat(result.paths)
           /\ Len(result.paths) = Cardinality(SimpleWalks(origin, destination))
    /\ (Done /\ nodes = ABNet /\ origin = A /\ destination = B) =>
           result = Ok(<<(<<A, B>>)>>)
    /\ (Done /\ nodes = ABCNet /\ origin = A /\ destination = C) =>
           result = Ok(<<(<<A, B, C>>)>>)
    /\ (Done /\ nodes = TriangleNet /\ origin = A /\ destination = C) =>
           /\ Len(result.paths) = 2
           /\ ResultPaths = {<<A, B, C>>, <<A, D, C>>}
    /\ (Done /\ nodes = DiamondNet /\ origin = A /\ destination = C) =>
           /\ Len(result.paths) = 4
           /\ ResultPaths =
                  {<<A, B, C>>, <<A, B, D, C>>, <<A, D, B, C>>, <<A, D, C>>}

C9_Witness ==
    /\ Done
    /\ nodes = DiamondNet
    /\ origin = A
    /\ destination = C
    /\ Len(result.paths) = 4

(* C10: origin equal to destination. In a well-formed Net, a query from a  *)
(* point that has a Node to that same point yields NoPathFound: neither    *)
(* the one-point path nor a cycle back to the point.                       *)
C10_OriginIsDestination ==
    (Done /\ WellFormed /\ HasNode(origin) /\ origin = destination) =>
        result = NoPathFound

(* the Net holds a cycle through origin, and the search went along it *)
C10_Witness ==
    /\ Done
    /\ WellFormed
    /\ origin = destination
    /\ Len(trying_path) >= 3
    /\ origin \in Range(NodeOf(Last(trying_path)).connected)
    /\ result = NoPathFound

=============================================================================
